---- MODULE Spec2Model ----
(***************************************************************************)
(* Model of scripts/ci_test_runner.py: the CI test runner for the username *)
(* hash migration suites.  One TestRunner object holds the loaded          *)
(* baselines and two failure flags; main() constructs it, runs P1, P2 and  *)
(* P3 through run_suite, runs the concurrency suite in a retry loop and    *)
(* prints the final summary, whose branch decides the exit status.         *)
(*                                                                         *)
(* Numbers: a limit is kept doubled (limit2 = 2 * limit) so that the       *)
(* PBKDF2 limit "threshold * 1.5" stays an integer (3 * threshold).        *)
(* "actual > limit" is therefore "2 * actual > limit2".                    *)
(***************************************************************************)
EXTENDS Integers, Sequences, FiniteSets, TLC

\* Longest captured stdout of the performance-checked suite, in lines.
MaxLines == 2

\* Largest measurement and largest configured threshold (ms) enumerated in
\* full by the specification of single measurements.
MaxMs == 8
MaxThreshold == 5

\* ------------------------------------------------------------------------
\* Environment: baseline file, child process results
\* ------------------------------------------------------------------------

\* The empty dict {}.
EmptyDict == [k \in {} |-> 0]

\* dict.get(key, default)
Get(d, key, default) == IF key \in DOMAIN d THEN d[key] ELSE default

\* Parsed contents of a baseline file that json.load accepts.  "dict" is a
\* mapping of groups to mappings of keys to thresholds; "list" is valid JSON
\* of another shape (e.g. []).
CustomSha3 ==
    [kind |-> "dict",
     groups |-> [g \in {"hash_computation"} |-> [k \in {"sha3_256_max_ms"} |-> 12]]]

CustomAll ==
    [kind |-> "dict",
     groups |-> [g \in {"migration_performance", "hash_computation"} |->
                   IF g = "migration_performance"
                   THEN [k \in {"batch_20_users_max_ms"} |-> 500]
                   ELSE [k \in {"pbkdf2_max_ms"} |-> 101]]]

JsonList == [kind |-> "list", groups |-> EmptyDict]

NoBaselines == [kind |-> "dict", groups |-> EmptyDict]

\* What can be at baseline_path when main() starts.
BaselineFiles ==
    {[exists |-> FALSE, parses |-> FALSE, value |-> NoBaselines],
     [exists |-> TRUE,  parses |-> FALSE, value |-> NoBaselines],
     [exists |-> TRUE,  parses |-> TRUE,  value |-> JsonList],
     [exists |-> TRUE,  parses |-> TRUE,  value |-> CustomSha3],
     [exists |-> TRUE,  parses |-> TRUE,  value |-> CustomAll]}

\* One line of captured stdout that carries a measurement.
Line(label, count, ms) == [label |-> label, count |-> count, ms |-> ms]

Lines ==
    {Line("Migration", 19, 500), Line("Migration", 19, 30001),
     Line("Migration", 20, 30001),
     Line("SHA3-256", 100, 10), Line("SHA3-256", 100, 12),
     Line("PBKDF2", 1000, 150), Line("PBKDF2", 1000, 151)}

Outputs == UNION {[1..n -> Lines] : n \in 0..MaxLines}

\* Result of subprocess.run: the exception it raised ("none" when the child
\* ran to completion), the child's return code and its captured stdout.
Started(returncode, stdout) ==
    [raised |-> "none", returncode |-> returncode, stdout |-> stdout]

NotStarted(exc) == [raised |-> exc, returncode |-> 0, stdout |-> <<>>]

LaunchErrors == {NotStarted("FileNotFoundError"), NotStarted("PermissionError")}

\* Suites whose stdout is never analysed are given an empty stdout.
PlainResults == LaunchErrors \cup {Started(rc, <<>>) : rc \in {0, 1}}

PerfResults == LaunchErrors \cup {Started(rc, out) : rc \in {0, 1}, out \in Outputs}

\* ------------------------------------------------------------------------
\* State
\* ------------------------------------------------------------------------
VARIABLES
    pc,                  \* position of main(): "construct", "P1", "P2", "P3",
                         \* "concurrency", "summary", "exited"; "P1:run" etc.
                         \* while main() waits inside subprocess.run
    baseline_file,       \* the file at baseline_path
    baselines,           \* TestRunner.baselines
    failed_blocking,     \* TestRunner.failed_blocking
    failed_non_blocking, \* TestRunner.failed_non_blocking
    i,                   \* loop variable of the concurrency retry loop
    invoked,             \* the subprocess.run calls made so far, with results
    children,            \* suites whose child process is alive
    report,              \* metric lines printed by _check_metric
    summary,             \* the final summary line printed, "" before
    uncaught,            \* exception that left main(), "none" otherwise
    exit_status          \* process exit status, -1 while running

vars == <<pc, baseline_file, baselines, failed_blocking, failed_non_blocking,
          i, invoked, children, report, summary, uncaught, exit_status>>

\* The fields of the TestRunner object (and what it printed) as one value.
Self ==
    [baselines |-> baselines, failed_blocking |-> failed_blocking,
     failed_non_blocking |-> failed_non_blocking, report |-> report,
     uncaught |-> "none"]

\* ------------------------------------------------------------------------
\* TestRunner
\* ------------------------------------------------------------------------

\* _load_baselines: a missing file gives {}; otherwise json.load, which
\* raises on text that is not JSON and returns any JSON value as it is.
load_baselines(file) ==
    IF ~file.exists THEN [raised |-> "none", value |-> NoBaselines]
    ELSE IF ~file.parses THEN [raised |-> "JSONDecodeError", value |-> NoBaselines]
    ELSE [raised |-> "none", value |-> file.value]

\* Variant of _check_metric that compares with >= instead of >.
check_metric_at_limit(self, name, actual, limit2) ==
    IF 2 * actual >= limit2
    THEN [self EXCEPT !.failed_non_blocking = TRUE,
                      !.report = Append(@, [name |-> name, actual |-> actual,
                                            limit2 |-> limit2, passed |-> FALSE])]
    ELSE [self EXCEPT !.report = Append(@, [name |-> name, actual |-> actual,
                                            limit2 |-> limit2, passed |-> TRUE])]

\* _check_metric
check_metric(self, name, actual, limit2) ==
    IF 2 * actual > limit2
    THEN [self EXCEPT !.failed_non_blocking = TRUE,
                      !.report = Append(@, [name |-> name, actual |-> actual,
                                            limit2 |-> limit2, passed |-> FALSE])]
    ELSE [self EXCEPT !.report = Append(@, [name |-> name, actual |-> actual,
                                            limit2 |-> limit2, passed |-> TRUE])]

\* Variant of the migration pattern that accepts any user count (\d+).
MatchesMigration_any_count(l) == l.label = "Migration"

\* Variant of re.search that returns the last match.
re_search_last(pattern, output) ==
    LET hits == {n \in 1..Len(output) :
                    CASE pattern = "migration" -> output[n].label = "Migration" /\ output[n].count = 19
                      [] pattern = "sha3" -> output[n].label = "SHA3-256"
                      [] pattern = "pbkdf2" -> output[n].label = "PBKDF2"}
    IN IF hits = {} THEN 0 ELSE CHOOSE n \in hits : \A m \in hits : n >= m

\* The three patterns of _analyze_performance, applied to one line.
MatchesMigration(l) == l.label = "Migration" /\ l.count = 19
MatchesSha3(l) == l.label = "SHA3-256"
MatchesPbkdf2(l) == l.label = "PBKDF2"

Matches(pattern, l) ==
    CASE pattern = "migration" -> MatchesMigration(l)
      [] pattern = "sha3" -> MatchesSha3(l)
      [] pattern = "pbkdf2" -> MatchesPbkdf2(l)

\* re.search: the position of the first match in text order, 0 for None.
re_search(pattern, output) ==
    LET hits == {n \in 1..Len(output) : Matches(pattern, output[n])}
    IN IF hits = {} THEN 0 ELSE CHOOSE n \in hits : \A m \in hits : n <= m

\* One "match = re.search(...); if match: ..." block of _analyze_performance.
\* factor2 is twice the factor applied to the threshold.
analyze_metric(self, output, pattern, name, group, key, default, factor2) ==
    LET m == re_search(pattern, output)
    IN IF self.uncaught # "none" \/ m = 0 THEN self
       ELSE IF self.baselines.kind # "dict"
       THEN [self EXCEPT !.uncaught = "AttributeError"]
       ELSE check_metric(self, name, output[m].ms,
                         factor2 * Get(Get(self.baselines.groups, group, EmptyDict),
                                       key, default))

\* Variant of _analyze_performance whose SHA3-256 default is the PBKDF2 one.
analyze_performance_sha3_default(self, output) ==
    LET s1 == analyze_metric(self, output, "migration", "Batch Migration (20 users)",
                             "migration_performance", "batch_20_users_max_ms", 30000, 2)
        s2 == analyze_metric(s1, output, "sha3", "SHA3-256 Speed",
                             "hash_computation", "sha3_256_max_ms", 100, 2)
    IN analyze_metric(s2, output, "pbkdf2", "PBKDF2 Speed",
                      "hash_computation", "pbkdf2_max_ms", 100, 3)

\* Variant of _analyze_performance without the "* 1.5" on the PBKDF2 limit.
analyze_performance_unrelaxed(self, output) ==
    LET s1 == analyze_metric(self, output, "migration", "Batch Migration (20 users)",
                             "migration_performance", "batch_20_users_max_ms", 30000, 2)
        s2 == analyze_metric(s1, output, "sha3", "SHA3-256 Speed",
                             "hash_computation", "sha3_256_max_ms", 10, 2)
    IN analyze_metric(s2, output, "pbkdf2", "PBKDF2 Speed",
                      "hash_computation", "pbkdf2_max_ms", 100, 2)

\* _analyze_performance
analyze_performance(self, output) ==
    LET s1 == analyze_metric(self, output, "migration", "Batch Migration (20 users)",
                             "migration_performance", "batch_20_users_max_ms", 30000, 2)
        s2 == analyze_metric(s1, output, "sha3", "SHA3-256 Speed",
                             "hash_computation", "sha3_256_max_ms", 10, 2)
    IN analyze_metric(s2, output, "pbkdf2", "PBKDF2 Speed",
                      "hash_computation", "pbkdf2_max_ms", 100, 3)

\* run_suite, "except FileNotFoundError" branch.
suite_not_found(self, blocking) ==
    IF blocking THEN [self EXCEPT !.failed_blocking = TRUE] ELSE self

\* Variant of the non-zero branch that ignores the blocking argument.
suite_failed_always_blocking(self, blocking) ==
    [self EXCEPT !.failed_blocking = TRUE]

\* run_suite, "if result.returncode != 0" branch.
suite_failed(self, blocking) ==
    IF blocking THEN [self EXCEPT !.failed_blocking = TRUE]
    ELSE [self EXCEPT !.failed_non_blocking = TRUE]

\* run_suite, "else" branch (return code 0).
suite_passed(self, check_performance, output) ==
    IF check_performance THEN analyze_performance(self, output) ELSE self

\* Variant of run_suite in which a blocking suite assigns its own outcome to
\* the flag (failed_blocking = (returncode != 0)) instead of only setting it.
run_suite_assigning(self, blocking, check_performance, result) ==
    IF result.raised = "FileNotFoundError" THEN suite_not_found(self, blocking)
    ELSE IF result.raised # "none" THEN [self EXCEPT !.uncaught = result.raised]
    ELSE IF result.returncode # 0 THEN suite_failed(self, blocking)
    ELSE IF blocking THEN [self EXCEPT !.failed_blocking = FALSE]
    ELSE suite_passed(self, check_performance, result.stdout)

\* run_suite: the object after the call; an exception other than
\* FileNotFoundError raised by subprocess.run is not caught.
run_suite(self, blocking, check_performance, result) ==
    IF result.raised = "FileNotFoundError" THEN suite_not_found(self, blocking)
    ELSE IF result.raised # "none" THEN [self EXCEPT !.uncaught = result.raised]
    ELSE IF result.returncode # 0 THEN suite_failed(self, blocking)
    ELSE suite_passed(self, check_performance, result.stdout)

\* ------------------------------------------------------------------------
\* main
\* ------------------------------------------------------------------------
max_retries == 3

\* An uncaught exception ends the process with a traceback and status 1.
Crash(exc) ==
    /\ pc' = "exited"
    /\ uncaught' = exc
    /\ exit_status' = 1

\* main() calling runner.run_suite(...) and going on to the next statement.
CallRunSuite(name, blocking, check_performance, result, next) ==
    LET after == run_suite(Self, blocking, check_performance, result)
    IN /\ invoked' = Append(invoked, [suite |-> name, result |-> result])
       /\ failed_blocking' = after.failed_blocking
       /\ failed_non_blocking' = after.failed_non_blocking
       /\ report' = after.report
       /\ IF after.uncaught # "none"
          THEN Crash(after.uncaught)
          ELSE pc' = next /\ UNCHANGED <<uncaught, exit_status>>
       /\ UNCHANGED <<baseline_file, baselines, i, summary>>

Init ==
    /\ pc = "construct"
    /\ baseline_file \in BaselineFiles
    /\ baselines = NoBaselines
    /\ failed_blocking = FALSE
    /\ failed_non_blocking = FALSE
    /\ i = 0
    /\ invoked = <<>>
    /\ children = {}
    /\ report = <<>>
    /\ summary = ""
    /\ uncaught = "none"
    /\ exit_status = -1

\* runner = TestRunner(args.build_dir, baseline_path)
Construct ==
    /\ pc = "construct"
    /\ LET loaded == load_baselines(baseline_file)
       IN IF loaded.raised # "none"
          THEN Crash(loaded.raised) /\ UNCHANGED baselines
          ELSE /\ baselines' = loaded.value
               /\ pc' = "P1"
               /\ UNCHANGED <<uncaught, exit_status>>
    /\ failed_blocking' = FALSE
    /\ failed_non_blocking' = FALSE
    /\ UNCHANGED <<baseline_file, i, invoked, children, report, summary>>

RunP1 ==
    /\ pc = "P1"
    /\ \E result \in PlainResults : CallRunSuite("P1", TRUE, FALSE, result, "P2")
    /\ UNCHANGED children

RunP2 ==
    /\ pc = "P2"
    /\ \E result \in PlainResults : CallRunSuite("P2", TRUE, FALSE, result, "P3")
    /\ UNCHANGED children

RunP3 ==
    /\ pc = "P3"
    /\ \E result \in PerfResults : CallRunSuite("P3", FALSE, TRUE, result, "concurrency")
    /\ UNCHANGED children

\* Variant of the loop body that sets the flag on every failed attempt.
retry_failed_blocking_each_attempt(fb, iter, rc) ==
    IF rc # 0 THEN TRUE ELSE fb

\* Body of the retry loop for return code rc in iteration i: the value of
\* runner.failed_blocking afterwards.
retry_failed_blocking(fb, iter, rc) ==
    IF rc # 0 /\ iter = max_retries - 1 THEN TRUE ELSE fb

\* Variant of the loop without the break on success.
retry_continues_without_break(iter, rc) == iter + 1 < max_retries

\* Whether the retry loop runs another iteration after iteration iter.
retry_continues(iter, rc) == rc # 0 /\ iter + 1 < max_retries

\* One iteration of "for i in range(max_retries)" in which subprocess.run
\* gave result; subprocess.run is called outside any try block.
Attempt(result) ==
    /\ invoked' = Append(invoked, [suite |-> "concurrency", result |-> result])
    /\ IF result.raised # "none"
       THEN /\ Crash(result.raised)
            /\ UNCHANGED <<failed_blocking, i>>
       ELSE /\ failed_blocking' =
                  retry_failed_blocking(failed_blocking, i, result.returncode)
            /\ IF retry_continues(i, result.returncode)
               THEN i' = i + 1 /\ pc' = "concurrency"
               ELSE i' = i /\ pc' = "summary"
            /\ UNCHANGED <<uncaught, exit_status>>
    /\ UNCHANGED <<baseline_file, baselines, failed_non_blocking, report, summary>>

ConcurrencyAttempt ==
    /\ pc = "concurrency"
    /\ \E result \in PlainResults : Attempt(result)
    /\ UNCHANGED children

\* The line printed by the final summary.
final_summary(fb, fnb) ==
    IF fb THEN "BUILD FAILED"
    ELSE IF fnb THEN "BUILD UNSTABLE"
    ELSE "BUILD SUCCESS"

\* The argument of sys.exit in the final summary.
final_exit(fb, fnb) == IF fb THEN 1 ELSE 0

FinalSummary ==
    /\ pc = "summary"
    /\ summary' = final_summary(failed_blocking, failed_non_blocking)
    /\ exit_status' = final_exit(failed_blocking, failed_non_blocking)
    /\ pc' = "exited"
    /\ UNCHANGED <<baseline_file, baselines, failed_blocking, failed_non_blocking,
                   i, invoked, children, report, uncaught>>

Next ==
    \/ Construct
    \/ RunP1
    \/ RunP2
    \/ RunP3
    \/ ConcurrencyAttempt
    \/ FinalSummary

Spec == Init /\ [][Next]_vars

\* ------------------------------------------------------------------------
\* Runs with a single measurement: the baseline file configures one threshold
\* (or is absent) and P3 exits 0 with one measurement line on stdout.
\* ------------------------------------------------------------------------
OneThreshold(group, key, t) ==
    [kind |-> "dict", groups |-> [g \in {group} |-> [k \in {key} |-> t]]]

Thresholds == (0..MaxThreshold) \cup {100}

MetricBaselineFiles ==
    {[exists |-> FALSE, parses |-> FALSE, value |-> NoBaselines]}
    \cup {[exists |-> TRUE, parses |-> TRUE,
           value |-> OneThreshold("migration_performance", "batch_20_users_max_ms", t)]
             : t \in Thresholds}
    \cup {[exists |-> TRUE, parses |-> TRUE,
           value |-> OneThreshold("hash_computation", "sha3_256_max_ms", t)]
             : t \in Thresholds}
    \cup {[exists |-> TRUE, parses |-> TRUE,
           value |-> OneThreshold("hash_computation", "pbkdf2_max_ms", t)]
             : t \in Thresholds}

MeasuredValues == (0..MaxMs) \cup {140, 150, 151, 160}

MeasuredLines ==
    {Line("Migration", 19, ms) : ms \in MeasuredValues}
    \cup {Line("SHA3-256", 100, ms) : ms \in MeasuredValues}
    \cup {Line("PBKDF2", 1000, ms) : ms \in MeasuredValues}

InitMetrics ==
    /\ pc = "construct"
    /\ baseline_file \in MetricBaselineFiles
    /\ baselines = NoBaselines
    /\ failed_blocking = FALSE
    /\ failed_non_blocking = FALSE
    /\ i = 0
    /\ invoked = <<>>
    /\ children = {}
    /\ report = <<>>
    /\ summary = ""
    /\ uncaught = "none"
    /\ exit_status = -1

RunP3Measured ==
    /\ pc = "P3"
    /\ \E l \in MeasuredLines :
         CallRunSuite("P3", FALSE, TRUE, Started(0, <<l>>), "concurrency")
    /\ UNCHANGED children

NextMetrics ==
    \/ Construct
    \/ RunP1
    \/ RunP2
    \/ RunP3Measured
    \/ ConcurrencyAttempt
    \/ FinalSummary

SpecMetrics == InitMetrics /\ [][NextMetrics]_vars

\* ------------------------------------------------------------------------
\* Runs with the child processes visible: subprocess.run first launches the
\* child (or raises when it cannot) and returns only when the child has
\* exited and its output has been read.
\* ------------------------------------------------------------------------
StartedResults(results) == {r \in results : r.raised = "none"}

\* The child of suite name is launched; main() waits inside subprocess.run.
Launch(name) ==
    /\ children' = children \cup {name}
    /\ pc' = IF name = "P1" THEN "P1:run"
             ELSE IF name = "P2" THEN "P2:run"
             ELSE IF name = "P3" THEN "P3:run"
             ELSE "concurrency:run"
    /\ UNCHANGED <<baseline_file, baselines, failed_blocking, failed_non_blocking,
                   i, invoked, report, summary, uncaught, exit_status>>

\* Variant of StartP1 that launches the child and goes on without waiting.
StartP1_without_wait ==
    /\ pc = "P1"
    /\ children' = children \cup {"P1"}
    /\ pc' = "P2"
    /\ UNCHANGED <<baseline_file, baselines, failed_blocking, failed_non_blocking,
                   i, invoked, report, summary, uncaught, exit_status>>

StartP1 ==
    /\ pc = "P1"
    /\ \/ Launch("P1")
       \/ /\ \E result \in LaunchErrors : CallRunSuite("P1", TRUE, FALSE, result, "P2")
          /\ UNCHANGED children

FinishP1 ==
    /\ pc = "P1:run"
    /\ \E result \in StartedResults(PlainResults) :
         CallRunSuite("P1", TRUE, FALSE, result, "P2")
    /\ children' = children \ {"P1"}

StartP2 ==
    /\ pc = "P2"
    /\ \/ Launch("P2")
       \/ /\ \E result \in LaunchErrors : CallRunSuite("P2", TRUE, FALSE, result, "P3")
          /\ UNCHANGED children

FinishP2 ==
    /\ pc = "P2:run"
    /\ \E result \in StartedResults(PlainResults) :
         CallRunSuite("P2", TRUE, FALSE, result, "P3")
    /\ children' = children \ {"P2"}

StartP3 ==
    /\ pc = "P3"
    /\ \/ Launch("P3")
       \/ /\ \E result \in LaunchErrors :
               CallRunSuite("P3", FALSE, TRUE, result, "concurrency")
          /\ UNCHANGED children

FinishP3 ==
    /\ pc = "P3:run"
    /\ \E result \in StartedResults(PerfResults) :
         CallRunSuite("P3", FALSE, TRUE, result, "concurrency")
    /\ children' = children \ {"P3"}

StartConcurrency ==
    /\ pc = "concurrency"
    /\ \/ Launch("concurrency")
       \/ /\ \E result \in LaunchErrors : Attempt(result)
          /\ UNCHANGED children

FinishConcurrency ==
    /\ pc = "concurrency:run"
    /\ \E result \in StartedResults(PlainResults) : Attempt(result)
    /\ children' = children \ {"concurrency"}

NextProc ==
    \/ Construct
    \/ StartP1
    \/ FinishP1
    \/ StartP2
    \/ FinishP2
    \/ StartP3
    \/ FinishP3
    \/ StartConcurrency
    \/ FinishConcurrency
    \/ FinalSummary

SpecProc == Init /\ [][NextProc]_vars

TypeOK ==
    /\ pc \in {"construct", "P1", "P2", "P3", "concurrency", "summary", "exited",
              "P1:run", "P2:run", "P3:run", "concurrency:run"}
    /\ children \subseteq {"P1", "P2", "P3", "concurrency"}
    /\ baseline_file \in BaselineFiles
    /\ failed_blocking \in BOOLEAN
    /\ failed_non_blocking \in BOOLEAN
    /\ i \in 0..(max_retries - 1)
    /\ summary \in {"", "BUILD FAILED", "BUILD UNSTABLE", "BUILD SUCCESS"}
    /\ exit_status \in {-1, 0, 1}

\* ------------------------------------------------------------------------
\* Vocabulary of the properties: what the recorded calls say about a suite
\* ------------------------------------------------------------------------

\* The recorded subprocess.run calls of one suite, in order.
Calls(name) == SelectSeq(invoked, LAMBDA c : c.suite = name)

\* An invocation that did not end with exit code 0: the child exited
\* non-zero, or it could not be located or launched.
FailedCall(c) == c.result.raised # "none" \/ c.result.returncode # 0

ExitedZero(c) == c.result.raised = "none" /\ c.result.returncode = 0

ExitedNonZero(c) == c.result.raised = "none" /\ c.result.returncode # 0

\* A suite run once through run_suite was invoked and failed.
SuiteFailed(name) == \E n \in 1..Len(Calls(name)) : FailedCall(Calls(name)[n])

SuiteExitedZero(name) == \E n \in 1..Len(Calls(name)) : ExitedZero(Calls(name)[n])

\* The retry-wrapped suite used up all its attempts without an exit code 0.
ConcurrencyExhausted ==
    /\ Len(Calls("concurrency")) = max_retries
    /\ \A n \in 1..max_retries : FailedCall(Calls("concurrency")[n])

BlockingSuiteFailed == SuiteFailed("P1") \/ SuiteFailed("P2") \/ ConcurrencyExhausted

\* Some evaluated metric was above its limit (from the printed numbers).
MetricRegressed == \E n \in 1..Len(report) : 2 * report[n].actual > report[n].limit2

\* The run printed its final summary.
ReachedSummary == summary # ""

\* The baseline file gave a mapping (or was absent).
BaselineIsMapping == pc # "construct" /\ uncaught # "JSONDecodeError" /\ baselines.kind = "dict"

\* ------------------------------------------------------------------------
\* Properties
\* ------------------------------------------------------------------------

\* C1: once the process has exited (baseline a mapping), its exit status is
\* 1 if and only if a blocking suite ultimately failed: P1 or P2 failed, or
\* the concurrency suite failed on all max_retries attempts.
C1_ExitOneIffBlockingFailed ==
    (pc = "exited" /\ BaselineIsMapping)
        => ((exit_status = 1) <=> BlockingSuiteFailed)

\* C2: a run that reaches its final summary with no blocking suite failed
\* and with a failed non-blocking suite (executable not found included) or
\* a metric above its limit ends UNSTABLE with exit status 0.
C2_NonBlockingFailureIsUnstable ==
    (ReachedSummary /\ ~BlockingSuiteFailed /\ (SuiteFailed("P3") \/ MetricRegressed))
        => (summary = "BUILD UNSTABLE" /\ exit_status = 0)

\* C3: while every invocation so far ended with exit code 0 (the concurrency
\* suite: has not failed on all its attempts) and no evaluated metric is above
\* its limit, neither flag is set; and a finished run in which every suite
\* exited 0 and no metric regressed ends SUCCESS with exit status 0.
NoFailureSoFar ==
    /\ \A n \in 1..Len(invoked) :
          \/ ExitedZero(invoked[n])
          \/ invoked[n].suite = "concurrency" /\ ExitedNonZero(invoked[n])
    /\ ~ConcurrencyExhausted
    /\ ~MetricRegressed

AllSuitesExitedZero ==
    /\ ~SuiteFailed("P1") /\ SuiteExitedZero("P1")
    /\ ~SuiteFailed("P2") /\ SuiteExitedZero("P2")
    /\ ~SuiteFailed("P3") /\ SuiteExitedZero("P3")
    /\ SuiteExitedZero("concurrency")

C3_AllPassIsSuccess ==
    /\ NoFailureSoFar => (~failed_blocking /\ ~failed_non_blocking)
    /\ (pc = "exited" /\ AllSuitesExitedZero /\ ~MetricRegressed)
          => (summary = "BUILD SUCCESS" /\ exit_status = 0)

C3_Witness ==
    /\ pc = "exited" /\ AllSuitesExitedZero /\ ~MetricRegressed
    /\ Len(report) >= 2
    /\ Len(Calls("concurrency")) = max_retries
    /\ summary = "BUILD SUCCESS"

\* C4: both flags start false, and no step of a run turns a true flag false.
C4_FlagsMonotone ==
    /\ (~failed_blocking /\ ~failed_non_blocking)
    /\ [][/\ failed_blocking => failed_blocking'
          /\ failed_non_blocking => failed_non_blocking']_vars

C4_Witness ==
    /\ pc = "exited" /\ ReachedSummary
    /\ failed_blocking /\ failed_non_blocking
    /\ SuiteFailed("P1") /\ ExitedZero(Calls("P2")[1])
    /\ MetricRegressed /\ ExitedZero(Calls("concurrency")[1])

\* C5: processing the non-blocking suite, whatever its result and whatever
\* metrics its output contains, never changes failed_blocking; where P3 is
\* run, run_suite with blocking=false would not change it for any result, and
\* with either blocking setting a suite that exits 0 with performance
\* checking would not change it;
\* a finished run whose only failure is a metric above its limit exits 0.
C5_NonBlockingFrame ==
    /\ [][pc = "P3" => failed_blocking' = failed_blocking]_vars
    /\ [](pc = "P3" =>
            \A result \in PerfResults, cp \in BOOLEAN :
                run_suite(Self, FALSE, cp, result).failed_blocking = failed_blocking)
    /\ [](pc = "P3" =>
            \A out \in Outputs, blocking \in BOOLEAN :
                run_suite(Self, blocking, TRUE, Started(0, out)).failed_blocking
                    = failed_blocking)
    /\ []((ReachedSummary /\ MetricRegressed /\ ~BlockingSuiteFailed)
            => exit_status = 0)

C5_Witness ==
    /\ ReachedSummary /\ MetricRegressed /\ AllSuitesExitedZero
    /\ failed_non_blocking /\ ~failed_blocking /\ exit_status = 0

\* C6: after a run_suite call whose executable was not found, the flag that
\* a non-zero exit of that suite would have set is set: failed_blocking for
\* P1 and P2 (blocking), failed_non_blocking for P3 (non-blocking).
C6_NotFoundLikeNonZeroExit ==
    \A n \in 1..Len(invoked) :
        invoked[n].result.raised = "FileNotFoundError" =>
            /\ invoked[n].suite \in {"P1", "P2"} => failed_blocking
            /\ invoked[n].suite = "P3" => failed_non_blocking

\* C7: an executable that cannot be located or launched never ends the run
\* with an uncaught exception: the run goes on to the final summary.
C7_LaunchFailureIsNotACrash ==
    uncaught \notin {"FileNotFoundError", "PermissionError"}

\* C8: the concurrency suite is invoked at most max_retries times, at least
\* once in every run that gets past the retry loop, and every attempt but
\* the last one exited non-zero (no attempt follows an exit code 0).
C8_RetryBounds ==
    LET attempts == Calls("concurrency")
    IN /\ Len(attempts) <= max_retries
       /\ (pc = "summary" \/ ReachedSummary) => Len(attempts) >= 1
       /\ \A n \in 1..Len(attempts) : n < Len(attempts) => ExitedNonZero(attempts[n])

C8_Witness ==
    /\ ReachedSummary
    /\ Len(Calls("concurrency")) = max_retries
    /\ ExitedZero(Calls("concurrency")[max_retries])

\* All max_retries attempts of the concurrency suite exited non-zero.
AllAttemptsExitedNonZero ==
    /\ Len(Calls("concurrency")) = max_retries
    /\ \A n \in 1..max_retries : ExitedNonZero(Calls("concurrency")[n])

\* C9: a step of the retry loop sets failed_blocking exactly when it completes
\* max_retries attempts that all exited non-zero, and changes no flag
\* otherwise; so when the concurrency suite has succeeded on any attempt, the
\* flags are those left by P1, P2 and P3 alone, the same on attempt 1, 2 or 3.
C9_RetryIdempotent ==
    /\ [][pc = "concurrency" =>
            /\ failed_non_blocking' = failed_non_blocking
            /\ failed_blocking' # failed_blocking => AllAttemptsExitedNonZero'
            /\ AllAttemptsExitedNonZero' => failed_blocking']_vars
    /\ []((pc = "summary" /\ SuiteExitedZero("concurrency")) =>
            /\ failed_blocking = (SuiteFailed("P1") \/ SuiteFailed("P2"))
            /\ failed_non_blocking =
                  (ExitedNonZero(Calls("P3")[1]) \/ MetricRegressed))

C9_Witness ==
    /\ pc = "summary"
    /\ Len(Calls("concurrency")) = max_retries
    /\ ExitedZero(Calls("concurrency")[max_retries])
    /\ ~failed_blocking /\ ~failed_non_blocking

\* C10: when a run whose baseline loaded has ended, every configured suite
\* (P1, P2, P3, concurrency) has been invoked at least once.
C10_FailSlow ==
    (pc = "exited" /\ uncaught # "JSONDecodeError" /\ baselines.kind = "dict")
        => \A name \in {"P1", "P2", "P3", "concurrency"} : Len(Calls(name)) >= 1

\* C11: when the baseline file exists and is not a mapping of groups to
\* mappings of keys to thresholds (text that is not JSON, or JSON of another
\* shape), no suite executable is ever invoked.
C11_MalformedBaselineAborts ==
    (baseline_file.exists /\ (~baseline_file.parses \/ baseline_file.value.kind # "dict"))
        => invoked = <<>>

\* ------------------------------------------------------------------------
\* Vocabulary of the properties about measurements
\* ------------------------------------------------------------------------

\* A stdout line that one of the three patterns recognises.
Recognised(l) ==
    \/ l.label = "Migration" /\ l.count = 19
    \/ l.label = "SHA3-256"
    \/ l.label = "PBKDF2"

GroupOf(label) ==
    IF label = "Migration" THEN "migration_performance" ELSE "hash_computation"

KeyOf(label) ==
    CASE label = "Migration" -> "batch_20_users_max_ms"
      [] label = "SHA3-256" -> "sha3_256_max_ms"
      [] label = "PBKDF2" -> "pbkdf2_max_ms"

DefaultThreshold(label) ==
    CASE label = "Migration" -> 30000
      [] label = "SHA3-256" -> 10
      [] label = "PBKDF2" -> 100

\* The threshold the loaded configuration stores for a metric.
Configured(label) ==
    /\ GroupOf(label) \in DOMAIN baselines.groups
    /\ KeyOf(label) \in DOMAIN baselines.groups[GroupOf(label)]

ResolvedThreshold(label) ==
    IF Configured(label) THEN baselines.groups[GroupOf(label)][KeyOf(label)]
    ELSE DefaultThreshold(label)

\* value > limit, with the PBKDF2 limit 1.5 times the threshold.
Exceeds(label, ms, t) == IF label = "PBKDF2" THEN 2 * ms > 3 * t ELSE ms > t

\* P3 ran to completion with exit code 0 and its analysis raised nothing.
P3Analysed ==
    /\ Len(Calls("P3")) = 1
    /\ ExitedZero(Calls("P3")[1])
    /\ uncaught # "AttributeError"
    /\ baselines.kind = "dict"

P3Stdout == Calls("P3")[1].result.stdout

\* C12: when P3 exits 0 with one recognised measurement of value v and the
\* resolved threshold is t, the non-blocking flag is set and the verdict is
\* "failed" exactly when 2 * v > 3 * t for PBKDF2 and exactly when v > t for
\* the migration and SHA3-256 metrics.
C12_VerdictIsValueAboveLimit ==
    (P3Analysed /\ Len(P3Stdout) = 1 /\ Recognised(P3Stdout[1])) =>
        LET l == P3Stdout[1]
            exceeds == Exceeds(l.label, l.ms, ResolvedThreshold(l.label))
        IN /\ failed_non_blocking = exceeds
           /\ Len(report) = 1
           /\ report[1].actual = l.ms
           /\ report[1].passed = ~exceeds

C12_Witness ==
    /\ ReachedSummary
    /\ P3Analysed /\ P3Stdout = <<Line("PBKDF2", 1000, 151)>>
    /\ Configured("PBKDF2") /\ ResolvedThreshold("PBKDF2") = 100
    /\ failed_non_blocking /\ ~report[1].passed
    /\ summary = "BUILD UNSTABLE"

\* The label whose metric a printed report line is about.
LabelOf(name) ==
    CASE name = "Batch Migration (20 users)" -> "Migration"
      [] name = "SHA3-256 Speed" -> "SHA3-256"
      [] name = "PBKDF2 Speed" -> "PBKDF2"

\* Twice the limit that follows from threshold t.
Limit2(label, t) == IF label = "PBKDF2" THEN 3 * t ELSE 2 * t

\* C13: with a baseline that is absent or a mapping, threshold resolution
\* raises nothing; every evaluated metric whose group or key is absent (or
\* whose file is absent) is compared with its default (migration 30000,
\* SHA3-256 10, PBKDF2 100 relaxed to 150) and every configured one with the
\* stored value; with no baseline file and P3 exiting 0 with a SHA3-256
\* measurement of 12 ms the non-blocking flag is set, and the run, when no
\* blocking suite fails, ends UNSTABLE with exit status 0.
C13_ThresholdDefaults ==
    /\ (pc # "construct" /\ baselines.kind = "dict") => uncaught # "AttributeError"
    /\ \A n \in 1..Len(report) :
          LET label == LabelOf(report[n].name)
          IN /\ ~baseline_file.exists =>
                  report[n].limit2 = Limit2(label, DefaultThreshold(label))
             /\ ~Configured(label) =>
                  report[n].limit2 = Limit2(label, DefaultThreshold(label))
             /\ Configured(label) =>
                  report[n].limit2 =
                      Limit2(label, baselines.groups[GroupOf(label)][KeyOf(label)])
    /\ (/\ ~baseline_file.exists
        /\ Len(Calls("P3")) = 1
        /\ Calls("P3")[1].result = Started(0, <<Line("SHA3-256", 100, 12)>>))
          => /\ failed_non_blocking
             /\ (ReachedSummary /\ ~BlockingSuiteFailed)
                   => (summary = "BUILD UNSTABLE" /\ exit_status = 0)

C13_Witness ==
    /\ ~baseline_file.exists
    /\ Len(Calls("P3")) = 1
    /\ Calls("P3")[1].result = Started(0, <<Line("SHA3-256", 100, 12)>>)
    /\ report = <<[name |-> "SHA3-256 Speed", actual |-> 12, limit2 |-> 20,
                   passed |-> FALSE]>>
    /\ summary = "BUILD UNSTABLE" /\ exit_status = 0

\* Position n holds the first line of out that its pattern recognises.
FirstOfItsMetric(out, n) ==
    /\ Recognised(out[n])
    /\ \A m \in 1..(n - 1) : ~(Recognised(out[m]) /\ out[m].label = out[n].label)

\* The metrics recognised in out whose (first) measurement is above the limit.
RegressedLabels(out) ==
    {out[n].label : n \in {k \in 1..Len(out) :
        /\ FirstOfItsMetric(out, k)
        /\ Exceeds(out[k].label, out[k].ms, ResolvedThreshold(out[k].label))}}

\* The metrics a report line says were evaluated and found above the limit.
ReportedRegressions == {LabelOf(report[n].name) : n \in {k \in 1..Len(report) : ~report[k].passed}}

\* C14: when the performance-checked suite P3 ran to completion, with any
\* exit code, every measurement in its stdout that is above its limit has
\* been evaluated and failed_non_blocking is set.
C14_PerformanceAlwaysEvaluated ==
    (/\ Len(Calls("P3")) = 1
     /\ Calls("P3")[1].result.raised = "none"
     /\ baselines.kind = "dict")
        => /\ RegressedLabels(P3Stdout) \subseteq ReportedRegressions
           /\ RegressedLabels(P3Stdout) # {} => failed_non_blocking

\* C15: once all suites have been processed, failed_blocking is true exactly
\* when a blocking suite ultimately failed, and failed_non_blocking is true
\* exactly when the non-blocking suite failed or an evaluated metric was
\* above its limit.
C15_FlagsCharacterised ==
    (pc = "summary" \/ ReachedSummary) =>
        /\ failed_blocking = BlockingSuiteFailed
        /\ failed_non_blocking = (SuiteFailed("P3") \/ MetricRegressed)

\* The suite that the n-th child process of a run belongs to.
ConfiguredOrder(n) ==
    IF n = 1 THEN "P1" ELSE IF n = 2 THEN "P2" ELSE IF n = 3 THEN "P3"
    ELSE "concurrency"

\* C16: at most one child process is alive at any time; the calls made and
\* the child alive follow the order P1, P2, P3, concurrency...; a child is
\* launched only when none is alive; and while a child is alive the flags
\* already hold the outcome of every earlier suite, performance analysis
\* included.
C16_StrictlySequential ==
    /\ [](Cardinality(children) <= 1)
    /\ [](\A n \in 1..Len(invoked) : invoked[n].suite = ConfiguredOrder(n))
    /\ [](children \subseteq {ConfiguredOrder(Len(invoked) + 1)})
    /\ [][children' # children /\ children' # {} => children = {}]_vars
    /\ [](children # {} =>
            /\ failed_blocking = (SuiteFailed("P1") \/ SuiteFailed("P2"))
            /\ failed_non_blocking =
                  (\/ (Len(Calls("P3")) = 1 /\ ExitedNonZero(Calls("P3")[1]))
                   \/ MetricRegressed))

C16_Witness ==
    /\ children = {"concurrency"}
    /\ Len(invoked) = 5
    /\ failed_blocking /\ failed_non_blocking /\ MetricRegressed

\* The report lines about one metric.
ReportsOf(label) == {n \in 1..Len(report) : LabelOf(report[n].name) = label}

\* C17: when P3 exits 0, a metric whose pattern occurs nowhere in the stdout
\* has no report line, and a stdout without any recognised line (such as a
\* migration line with count 20) leaves the report empty and both flags as
\* they were; a step of P3 whose stdout has no recognised line changes no
\* flag; a first migration line with count 19 and value 500 against the
\* default threshold 30000 is reported as passed.
C17_UnmatchedPatternNoVerdict ==
    /\ [](P3Analysed =>
            /\ \A label \in {"Migration", "SHA3-256", "PBKDF2"} :
                  (\A n \in 1..Len(P3Stdout) :
                      ~(Recognised(P3Stdout[n]) /\ P3Stdout[n].label = label))
                    => ReportsOf(label) = {}
            /\ (\A n \in 1..Len(P3Stdout) : ~Recognised(P3Stdout[n]))
                    => (report = <<>> /\ ~failed_non_blocking)
            /\ (/\ ~Configured("Migration")
                /\ \E n \in 1..Len(P3Stdout) :
                      /\ FirstOfItsMetric(P3Stdout, n)
                      /\ P3Stdout[n] = Line("Migration", 19, 500))
                    => \E k \in ReportsOf("Migration") :
                          /\ report[k].actual = 500
                          /\ report[k].limit2 = 2 * 30000
                          /\ report[k].passed)
    /\ [][(/\ pc = "P3" /\ P3Analysed'
           /\ \A n \in 1..Len(P3Stdout') : ~Recognised(P3Stdout'[n]))
            => /\ failed_blocking' = failed_blocking
               /\ failed_non_blocking' = failed_non_blocking]_vars

C17_Witness ==
    /\ P3Analysed /\ ReachedSummary
    /\ P3Stdout = <<Line("Migration", 20, 30001), Line("Migration", 19, 500)>>
    /\ Len(report) = 1 /\ report[1].passed
    /\ ~failed_non_blocking /\ summary = "BUILD SUCCESS"

\* C18: when P3 exits 0, each metric has at most one report line, the line
\* carries the value of the first matching stdout line, nothing else is
\* reported, and failed_non_blocking is set exactly when one of those first
\* values is above its limit, whatever later matching lines say.
C18_FirstMatchOnly ==
    P3Analysed =>
        /\ \A label \in {"Migration", "SHA3-256", "PBKDF2"} :
              Cardinality(ReportsOf(label)) <= 1
        /\ \A n \in 1..Len(P3Stdout) :
              FirstOfItsMetric(P3Stdout, n) =>
                  \E k \in ReportsOf(P3Stdout[n].label) :
                      report[k].actual = P3Stdout[n].ms
        /\ Len(report) =
              Cardinality({n \in 1..Len(P3Stdout) : FirstOfItsMetric(P3Stdout, n)})
        /\ failed_non_blocking = (RegressedLabels(P3Stdout) # {})

C18_Witness ==
    /\ P3Analysed /\ ReachedSummary
    /\ ~Configured("SHA3-256")
    /\ P3Stdout = <<Line("SHA3-256", 100, 10), Line("SHA3-256", 100, 12)>>
    /\ Len(report) = 1 /\ report[1].actual = 10
    /\ ~failed_non_blocking /\ summary = "BUILD SUCCESS"

\* C19: the final summary of a finished run differs from the final summary
\* that the same run would have printed with the other value of
\* failed_non_blocking, also when failed_blocking is true.
C19_BothFlagsObservable ==
    ReachedSummary =>
        summary # final_summary(failed_blocking, ~failed_non_blocking)

\* C20: a run whose baseline loaded and that has ended has printed one final
\* verdict, after P1, P2 and P3 were invoked once each and the concurrency
\* suite one to max_retries times (4 to 6 invocations in all).
C20_TerminatesWithVerdict ==
    (pc = "exited" /\ uncaught # "JSONDecodeError") =>
        /\ summary \in {"BUILD FAILED", "BUILD UNSTABLE", "BUILD SUCCESS"}
        /\ Len(Calls("P1")) = 1 /\ Len(Calls("P2")) = 1 /\ Len(Calls("P3")) = 1
        /\ Len(Calls("concurrency")) \in 1..max_retries
        /\ Len(invoked) \in 4..6
====
